---- MODULE Spec2Model ----
(***************************************************************************)
(* Vehicle composition and state migration of the Audi connector           *)
(* (src/carconnectivity_connectors/audi/vehicle.py).                       *)
(*                                                                         *)
(* Objects live in a heap and are referred to by identity, so that         *)
(* "self.capabilities = origin.capabilities" is aliasing and not a copy.   *)
(* A constructor call runs statement by statement in the order given by    *)
(* Python's method resolution order; between calls the environment writes  *)
(* attributes and subscribes observers.                                    *)
(***************************************************************************)
EXTENDS Integers, Sequences, FiniteSets, TLC

VARIABLES SUPPORT_IMAGES, heap, vehicles, cur, inbox, due, subVia, writes, staleVia

vars == <<SUPPORT_IMAGES, heap, vehicles, cur, inbox, due, subVia, writes, staleVia>>

(* ---------------- bounds and input domains ---------------- *)

\* vehicle objects constructed in one run (Spec), and in one run of SpecChain
MaxVehicles == 2
MaxChain == 3
\* attribute writes made by the environment in one run
MaxWrites == 1

Vins == {"WAUZZZ1", "WAUZZZ2"}
None == "None"
Observers == {"o1"}
Classes == {"AudiVehicle", "AudiElectricVehicle", "AudiCombustionVehicle", "AudiHybridVehicle"}

(* ---------------- heap objects ---------------- *)

NoObj == 0
NoVehicle == 0
NoParent == [t |-> "none", id |-> 0]
VehRef(i) == [t |-> "veh", id |-> i]
ObjRef(j) == [t |-> "obj", id |-> j]

\* One heap cell: a reactive attribute (val, subs) or a facet (items, attr).
Obj(kind, parent, val, attr) ==
    [kind |-> kind, parent |-> parent, val |-> val, items |-> {}, subs |-> {}, attr |-> attr]

\* A vehicle object whose __init__ has not assigned anything yet.
BlankVehicle(cls, origin, vin) ==
    [cls |-> cls, status |-> "constructing", origin |-> origin, vinArg |-> vin,
     vin |-> NoObj, manufacturer |-> NoObj, climatization |-> NoObj,
     capabilities |-> NoObj, is_active |-> NoObj, charging |-> NoObj, car_images |-> NoObj]

Idle ==
    [status |-> "idle", self |-> NoVehicle, cls |-> None, vin |-> None, origin |-> NoVehicle,
     prog |-> <<>>, pc |-> 1, heap0 |-> 0,
     snap |-> [manufacturer |-> None, capabilities |-> {}, is_active |-> None,
              climatization |-> None, charging |-> None]]

\* The value read through a facet's reactive attribute (NoObj: the facet is absent).
AttrVal(h, facet) == IF facet = NoObj THEN None ELSE h[h[facet].attr].val
ItemsOf(h, facet) == IF facet = NoObj THEN {} ELSE h[facet].items
ValOf(h, a) == IF a = NoObj THEN None ELSE h[a].val

(* ---------------- class hierarchy ---------------- *)

\* isinstance(x, ElectricVehicle)
IsElectricVehicle(cls) == cls \in {"AudiElectricVehicle", "AudiHybridVehicle"}

\* variant: a vin argument, when given, selects the fresh path
Migrating_vinwins(vin, origin) == origin # NoVehicle /\ vin = None

\* "if origin is not None" at the head of every __init__
Migrating(vin, origin) == origin # NoVehicle

GenericVehicle_init(mig) == IF mig THEN <<"GV_migrate">> ELSE <<"GV_fresh">>

\* variant: the origin path does not take over is_active
AudiVehicle_body_noactive(mig) ==
    (IF mig THEN <<"AV_50", "AV_51", "AV_54">>
            ELSE <<"AV_58", "AV_59", "AV_60", "AV_61">>) \o <<"AV_63">>

\* variant: the manufacturer is stamped before the facets are attached
AudiVehicle_body_stampfirst(mig) ==
    <<"AV_63">> \o (IF mig THEN <<"AV_50", "AV_51", "AV_52", "AV_53", "AV_54">>
                           ELSE <<"AV_58", "AV_59", "AV_60", "AV_61">>)

AudiVehicle_body(mig) ==
    (IF mig THEN <<"AV_50", "AV_51", "AV_52", "AV_53", "AV_54">>
            ELSE <<"AV_58", "AV_59", "AV_60", "AV_61">>) \o <<"AV_63">>

AudiVehicle_init(mig) == GenericVehicle_init(mig) \o AudiVehicle_body(mig)

CombustionVehicle_init(mig, super) == super

AudiCombustionVehicle_init(mig, super) == super

ElectricVehicle_init(mig, super) == super \o (IF mig THEN <<"EV_adopt">> ELSE <<"EV_new">>)

AudiElectricVehicle_tail(mig) == IF mig THEN <<"AEV_86">> ELSE <<"AEV_93">>

AudiElectricVehicle_init(mig, super) == super \o AudiElectricVehicle_tail(mig)

HybridVehicle_init(mig, super) == super

AudiHybridVehicle_init(mig, super) == super

\* The statements a constructor call executes, in method resolution order.
Program(cls, mig) ==
    CASE cls = "AudiVehicle" -> AudiVehicle_init(mig)
      [] cls = "AudiElectricVehicle" ->
            AudiElectricVehicle_init(mig, ElectricVehicle_init(mig, AudiVehicle_init(mig)))
      [] cls = "AudiCombustionVehicle" ->
            AudiCombustionVehicle_init(mig, CombustionVehicle_init(mig, AudiVehicle_init(mig)))
      [] cls = "AudiHybridVehicle" ->
            AudiHybridVehicle_init(mig, HybridVehicle_init(mig,
              AudiElectricVehicle_init(mig, ElectricVehicle_init(mig,
                AudiCombustionVehicle_init(mig, CombustionVehicle_init(mig,
                  AudiVehicle_init(mig)))))))

(* ---------------- control ---------------- *)

Running == cur.status = "running"
At(label) == Running /\ cur.pc <= Len(cur.prog) /\ cur.prog[cur.pc] = label
AtReturn == Running /\ cur.pc > Len(cur.prog)
Executed == SubSeq(cur.prog, 1, cur.pc - 1)
Did(label) == \E i \in 1..Len(Executed) : Executed[i] = label
Advance == [cur EXCEPT !.pc = @ + 1]
Raised == [cur EXCEPT !.status = "raised"]

Self == vehicles[cur.self]
Origin == vehicles[cur.origin]

Live == {i \in 1..Len(vehicles) : vehicles[i].status = "returned"}
Usable == {i \in 1..Len(vehicles) : vehicles[i].status \in {"returned", "retired"}}

Init ==
    /\ SUPPORT_IMAGES \in BOOLEAN
    /\ heap = <<>>
    /\ vehicles = <<>>
    /\ cur = Idle
    /\ inbox = [o \in Observers |-> <<>>]
    /\ due = [o \in Observers |-> <<>>]
    /\ subVia = [o \in Observers |-> NoVehicle]
    /\ writes = 0
    /\ staleVia = NoVehicle

\* Variant(vin=..., garage=..., managing_connector=..., origin=...)
\* The registry holds one vehicle: a fresh vehicle is built while it is empty,
\* afterwards the vehicle it holds is rebuilt from itself as origin.
Call(cls, vin, origin) ==
    /\ cur.status = "idle"
    /\ origin = NoVehicle => Live = {}
    /\ vehicles' = Append(vehicles, BlankVehicle(cls, origin, vin))
    /\ cur' = [status |-> "running", self |-> Len(vehicles) + 1, cls |-> cls, vin |-> vin,
               origin |-> origin, prog |-> Program(cls, Migrating(vin, origin)), pc |-> 1,
               heap0 |-> Len(heap),
               snap |-> IF origin = NoVehicle THEN Idle.snap
                        ELSE [manufacturer |-> ValOf(heap, vehicles[origin].manufacturer),
                              capabilities |-> ItemsOf(heap, vehicles[origin].capabilities),
                              is_active |-> ValOf(heap, vehicles[origin].is_active),
                              climatization |-> AttrVal(heap, vehicles[origin].climatization),
                              charging |-> AttrVal(heap, vehicles[origin].charging)]]
    /\ UNCHANGED <<SUPPORT_IMAGES, heap, inbox, due, subVia, writes, staleVia>>

\* The constructor returns; the registry replaces the origin by the result.
Return ==
    /\ AtReturn
    /\ vehicles' = [i \in 1..Len(vehicles) |->
                      IF i = cur.self THEN [vehicles[i] EXCEPT !.status = "returned"]
                      ELSE IF i = cur.origin THEN [vehicles[i] EXCEPT !.status = "retired"]
                      ELSE vehicles[i]]
    /\ cur' = Idle
    /\ UNCHANGED <<SUPPORT_IMAGES, heap, inbox, due, subVia, writes, staleVia>>

\* The exception reaches the caller; the half-built object is dropped.
Propagate ==
    /\ cur.status = "raised"
    /\ vehicles' = SubSeq(vehicles, 1, Len(vehicles) - 1)
    /\ cur' = Idle
    /\ UNCHANGED <<SUPPORT_IMAGES, heap, inbox, due, subVia, writes, staleVia>>

(* ---------------- reactive attributes ---------------- *)

\* The inboxes after attribute a of heap h has notified its subscribers of value.
Notify(h, a, value) ==
    [o \in Observers |-> IF o \in h[a].subs THEN Append(inbox[o], value) ELSE inbox[o]]

(* ---------------- facet construction protocol ---------------- *)

\* Facet(vehicle=owner): a new facet with a new reactive attribute at its default.
FreshFacet(h, kind, owner) ==
    h \o <<Obj(kind, VehRef(owner), None, Len(h) + 2),
           Obj("attribute", ObjRef(Len(h) + 1), None, NoObj)>>

\* Facet(vehicle=owner, origin=x): a new facet that adopts x's reactive attribute.
MigratedFacet(h, kind, owner, x) ==
    [h EXCEPT ![h[x].attr].parent = ObjRef(Len(h) + 1)]
      \o <<[Obj(kind, VehRef(owner), None, h[x].attr) EXCEPT !.items = h[x].items]>>

(* ---------------- GenericVehicle.__init__ ---------------- *)

GV_fresh ==
    /\ At("GV_fresh")
    /\ IF cur.vin = None
       THEN /\ cur' = Raised
            /\ UNCHANGED <<heap, vehicles>>
       ELSE /\ heap' = FreshFacet(
                  heap \o <<Obj("StringAttribute", VehRef(cur.self), cur.vin, NoObj),
                            Obj("StringAttribute", VehRef(cur.self), None, NoObj)>>,
                  "Climatization", cur.self)
            /\ vehicles' = [vehicles EXCEPT ![cur.self].vin = Len(heap) + 1,
                                            ![cur.self].manufacturer = Len(heap) + 2,
                                            ![cur.self].climatization = Len(heap) + 3]
            /\ cur' = Advance
    /\ UNCHANGED <<SUPPORT_IMAGES, inbox, due, subVia, writes, staleVia>>

GV_migrate ==
    /\ At("GV_migrate")
    /\ heap' = [heap EXCEPT ![Origin.vin].parent = VehRef(cur.self),
                            ![Origin.manufacturer].parent = VehRef(cur.self),
                            ![Origin.climatization].parent = VehRef(cur.self)]
    /\ vehicles' = [vehicles EXCEPT ![cur.self].vin = Origin.vin,
                                    ![cur.self].manufacturer = Origin.manufacturer,
                                    ![cur.self].climatization = Origin.climatization]
    /\ cur' = Advance
    /\ UNCHANGED <<SUPPORT_IMAGES, inbox, due, subVia, writes, staleVia>>

(* ---------------- AudiVehicle.__init__ ---------------- *)

\* variant: self.capabilities = copy of origin.capabilities
AV_50_copy ==
    /\ At("AV_50")
    /\ heap' = Append(heap, heap[Origin.capabilities])
    /\ vehicles' = [vehicles EXCEPT ![cur.self].capabilities = Len(heap) + 1]
    /\ cur' = Advance
    /\ UNCHANGED <<SUPPORT_IMAGES, inbox, due, subVia, writes, staleVia>>

\* self.capabilities = origin.capabilities
AV_50 ==
    /\ At("AV_50")
    /\ vehicles' = [vehicles EXCEPT ![cur.self].capabilities = Origin.capabilities]
    /\ cur' = Advance
    /\ UNCHANGED <<SUPPORT_IMAGES, heap, inbox, due, subVia, writes, staleVia>>

\* self.capabilities.parent = self
AV_51 ==
    /\ At("AV_51")
    /\ heap' = [heap EXCEPT ![Self.capabilities].parent = VehRef(cur.self)]
    /\ cur' = Advance
    /\ UNCHANGED <<SUPPORT_IMAGES, vehicles, inbox, due, subVia, writes, staleVia>>

\* variant: self.is_active = BooleanAttribute(...) on the origin path too
AV_52_fresh ==
    /\ At("AV_52")
    /\ heap' = Append(heap, Obj("BooleanAttribute", VehRef(cur.self), None, NoObj))
    /\ vehicles' = [vehicles EXCEPT ![cur.self].is_active = Len(heap) + 1]
    /\ cur' = Advance
    /\ UNCHANGED <<SUPPORT_IMAGES, inbox, due, subVia, writes, staleVia>>

\* self.is_active = origin.is_active
AV_52 ==
    /\ At("AV_52")
    /\ vehicles' = [vehicles EXCEPT ![cur.self].is_active = Origin.is_active]
    /\ cur' = Advance
    /\ UNCHANGED <<SUPPORT_IMAGES, heap, inbox, due, subVia, writes, staleVia>>

\* variant: the parent of is_active is left as it was
AV_53_noreparent ==
    /\ At("AV_53")
    /\ cur' = Advance
    /\ UNCHANGED <<SUPPORT_IMAGES, heap, vehicles, inbox, due, subVia, writes, staleVia>>

\* self.is_active.parent = self
AV_53 ==
    /\ At("AV_53")
    /\ heap' = [heap EXCEPT ![Self.is_active].parent = VehRef(cur.self)]
    /\ cur' = Advance
    /\ UNCHANGED <<SUPPORT_IMAGES, vehicles, inbox, due, subVia, writes, staleVia>>

\* if SUPPORT_IMAGES: self._car_images = origin._car_images
AV_54 ==
    /\ At("AV_54")
    /\ vehicles' = IF SUPPORT_IMAGES
                   THEN [vehicles EXCEPT ![cur.self].car_images = Origin.car_images]
                   ELSE vehicles
    /\ cur' = Advance
    /\ UNCHANGED <<SUPPORT_IMAGES, heap, inbox, due, subVia, writes, staleVia>>

\* self.capabilities = Capabilities(vehicle=self)
AV_58 ==
    /\ At("AV_58")
    /\ heap' = Append(heap, Obj("Capabilities", VehRef(cur.self), None, NoObj))
    /\ vehicles' = [vehicles EXCEPT ![cur.self].capabilities = Len(heap) + 1]
    /\ cur' = Advance
    /\ UNCHANGED <<SUPPORT_IMAGES, inbox, due, subVia, writes, staleVia>>

\* self.climatization = AudiClimatization(vehicle=self, origin=self.climatization)
AV_59 ==
    /\ At("AV_59")
    /\ heap' = MigratedFacet(heap, "AudiClimatization", cur.self, Self.climatization)
    /\ vehicles' = [vehicles EXCEPT ![cur.self].climatization = Len(heap) + 1]
    /\ cur' = Advance
    /\ UNCHANGED <<SUPPORT_IMAGES, inbox, due, subVia, writes, staleVia>>

\* variant: BooleanAttribute(name="is_active", parent=self, value=False, tags=...)
AV_60_false ==
    /\ At("AV_60")
    /\ heap' = Append(heap, Obj("BooleanAttribute", VehRef(cur.self), "False", NoObj))
    /\ vehicles' = [vehicles EXCEPT ![cur.self].is_active = Len(heap) + 1]
    /\ cur' = Advance
    /\ UNCHANGED <<SUPPORT_IMAGES, inbox, due, subVia, writes, staleVia>>

\* self.is_active = BooleanAttribute(name="is_active", parent=self, tags=...)
AV_60 ==
    /\ At("AV_60")
    /\ heap' = Append(heap, Obj("BooleanAttribute", VehRef(cur.self), None, NoObj))
    /\ vehicles' = [vehicles EXCEPT ![cur.self].is_active = Len(heap) + 1]
    /\ cur' = Advance
    /\ UNCHANGED <<SUPPORT_IMAGES, inbox, due, subVia, writes, staleVia>>

\* if SUPPORT_IMAGES: self._car_images = {}
AV_61 ==
    /\ At("AV_61")
    /\ IF SUPPORT_IMAGES
       THEN /\ heap' = Append(heap, Obj("dict", NoParent, None, NoObj))
            /\ vehicles' = [vehicles EXCEPT ![cur.self].car_images = Len(heap) + 1]
       ELSE UNCHANGED <<heap, vehicles>>
    /\ cur' = Advance
    /\ UNCHANGED <<SUPPORT_IMAGES, inbox, due, subVia, writes, staleVia>>

\* variant: the manufacturer is not stamped
AV_63_nostamp ==
    /\ At("AV_63")
    /\ cur' = Advance
    /\ UNCHANGED <<SUPPORT_IMAGES, heap, vehicles, inbox, due, subVia, writes, staleVia>>

\* self.manufacturer._set_value(value="Audi")
AV_63 ==
    /\ At("AV_63")
    /\ heap' = [heap EXCEPT ![Self.manufacturer].val = "Audi"]
    /\ inbox' = Notify(heap, Self.manufacturer, "Audi")
    /\ cur' = Advance
    /\ UNCHANGED <<SUPPORT_IMAGES, vehicles, due, subVia, writes, staleVia>>

(* ---------------- ElectricVehicle.__init__ ---------------- *)

\* with origin: charging adopted from an electric origin, otherwise Charging(vehicle=self)
EV_adopt ==
    /\ At("EV_adopt")
    /\ IF IsElectricVehicle(Origin.cls)
       THEN /\ heap' = [heap EXCEPT ![Origin.charging].parent = VehRef(cur.self)]
            /\ vehicles' = [vehicles EXCEPT ![cur.self].charging = Origin.charging]
       ELSE /\ heap' = FreshFacet(heap, "Charging", cur.self)
            /\ vehicles' = [vehicles EXCEPT ![cur.self].charging = Len(heap) + 1]
    /\ cur' = Advance
    /\ UNCHANGED <<SUPPORT_IMAGES, inbox, due, subVia, writes, staleVia>>

\* without origin: self.charging = Charging(vehicle=self)
EV_new ==
    /\ At("EV_new")
    /\ heap' = FreshFacet(heap, "Charging", cur.self)
    /\ vehicles' = [vehicles EXCEPT ![cur.self].charging = Len(heap) + 1]
    /\ cur' = Advance
    /\ UNCHANGED <<SUPPORT_IMAGES, inbox, due, subVia, writes, staleVia>>

(* ---------------- AudiElectricVehicle.__init__ ---------------- *)

\* variant: origin.charging whatever the origin is
ChargingOrigin_always(originCls, originCharging, selfCharging) == originCharging

\* origin.charging if isinstance(origin, ElectricVehicle) else self.charging
ChargingOrigin(originCls, originCharging, selfCharging) ==
    IF IsElectricVehicle(originCls) THEN originCharging ELSE selfCharging

\* variant: self.charging = AudiCharging(vehicle=self), nothing adopted
AEV_86_fresh ==
    /\ At("AEV_86")
    /\ heap' = FreshFacet(heap, "AudiCharging", cur.self)
    /\ vehicles' = [vehicles EXCEPT ![cur.self].charging = Len(heap) + 1]
    /\ cur' = Advance
    /\ UNCHANGED <<SUPPORT_IMAGES, inbox, due, subVia, writes, staleVia>>

\* self.charging = AudiCharging(vehicle=self, origin=<origin.charging or self.charging>)
\* (reading .charging of an object that has none raises AttributeError)
AEV_86 ==
    /\ At("AEV_86")
    /\ LET x == ChargingOrigin(Origin.cls, Origin.charging, Self.charging) IN
         IF x = NoObj
         THEN /\ cur' = Raised
              /\ UNCHANGED <<heap, vehicles>>
         ELSE /\ heap' = MigratedFacet(heap, "AudiCharging", cur.self, x)
              /\ vehicles' = [vehicles EXCEPT ![cur.self].charging = Len(heap) + 1]
              /\ cur' = Advance
    /\ UNCHANGED <<SUPPORT_IMAGES, inbox, due, subVia, writes, staleVia>>

\* self.charging = AudiCharging(vehicle=self, origin=self.charging)
AEV_93 ==
    /\ At("AEV_93")
    /\ heap' = MigratedFacet(heap, "AudiCharging", cur.self, Self.charging)
    /\ vehicles' = [vehicles EXCEPT ![cur.self].charging = Len(heap) + 1]
    /\ cur' = Advance
    /\ UNCHANGED <<SUPPORT_IMAGES, inbox, due, subVia, writes, staleVia>>

Construct ==
    \/ GV_fresh \/ GV_migrate
    \/ AV_50 \/ AV_51 \/ AV_52 \/ AV_53 \/ AV_54
    \/ AV_58 \/ AV_59 \/ AV_60 \/ AV_61 \/ AV_63
    \/ EV_adopt \/ EV_new \/ AEV_86 \/ AEV_93

(* ---------------- environment: attribute writes and observers ---------------- *)

CanWrite(v) == cur.status = "idle" /\ writes < MaxWrites /\ v \in Usable

\* The vehicle from whose construction v's charging attribute descends.
RECURSIVE ChargeRoot(_)
ChargeRoot(v) ==
    IF /\ vehicles[v].origin # NoVehicle
       /\ IsElectricVehicle(vehicles[v].cls)
       /\ IsElectricVehicle(vehicles[vehicles[v].origin].cls)
    THEN ChargeRoot(vehicles[v].origin)
    ELSE v

\* v.manufacturer._set_value(value)
SetManufacturer(v, value) ==
    /\ CanWrite(v)
    /\ heap' = [heap EXCEPT ![vehicles[v].manufacturer].val = value]
    /\ writes' = writes + 1
    /\ UNCHANGED <<SUPPORT_IMAGES, vehicles, cur, inbox, due, subVia, staleVia>>

\* v.is_active._set_value(value)
WriteIsActive(v, value) ==
    /\ CanWrite(v)
    /\ heap' = [heap EXCEPT ![vehicles[v].is_active].val = value]
    /\ writes' = writes + 1
    /\ staleVia' = IF vehicles[v].status = "retired" THEN v ELSE NoVehicle
    /\ UNCHANGED <<SUPPORT_IMAGES, vehicles, cur, inbox, due, subVia>>

\* v.capabilities gains a capability
AddCapability(v, c) ==
    /\ CanWrite(v)
    /\ heap' = [heap EXCEPT ![vehicles[v].capabilities].items = @ \cup {c}]
    /\ writes' = writes + 1
    /\ staleVia' = IF vehicles[v].status = "retired" THEN v ELSE NoVehicle
    /\ UNCHANGED <<SUPPORT_IMAGES, vehicles, cur, inbox, due, subVia>>

\* v.climatization target temperature is written
WriteTargetTemperature(v, value) ==
    /\ CanWrite(v)
    /\ heap' = [heap EXCEPT ![heap[vehicles[v].climatization].attr].val = value]
    /\ writes' = writes + 1
    /\ UNCHANGED <<SUPPORT_IMAGES, vehicles, cur, inbox, due, subVia, staleVia>>

\* v._car_images[key] = image
AddCarImage(v, key) ==
    /\ CanWrite(v)
    /\ vehicles[v].car_images # NoObj
    /\ heap' = [heap EXCEPT ![vehicles[v].car_images].items = @ \cup {key}]
    /\ writes' = writes + 1
    /\ UNCHANGED <<SUPPORT_IMAGES, vehicles, cur, inbox, due, subVia, staleVia>>

\* observer o subscribes to v.charging.state
Subscribe(o, v) ==
    /\ cur.status = "idle"
    /\ v \in Live
    /\ vehicles[v].charging # NoObj
    /\ subVia[o] = NoVehicle
    /\ heap' = [heap EXCEPT ![heap[vehicles[v].charging].attr].subs = @ \cup {o}]
    /\ subVia' = [subVia EXCEPT ![o] = v]
    /\ UNCHANGED <<SUPPORT_IMAGES, vehicles, cur, inbox, due, writes, staleVia>>

\* v.charging.state is written; every subscriber of the attribute is notified
WriteChargingState(v, value) ==
    /\ CanWrite(v)
    /\ vehicles[v].charging # NoObj
    /\ LET a == heap[vehicles[v].charging].attr IN
         /\ heap' = [heap EXCEPT ![a].val = value]
         /\ inbox' = Notify(heap, a, value)
    /\ due' = [o \in Observers |->
                 IF subVia[o] # NoVehicle /\ ChargeRoot(subVia[o]) = ChargeRoot(v)
                 THEN Append(due[o], [via |-> v, value |-> value]) ELSE due[o]]
    /\ writes' = writes + 1
    /\ UNCHANGED <<SUPPORT_IMAGES, vehicles, cur, subVia, staleVia>>

Calls ==
    \E cls \in Classes, vin \in Vins \cup {None}, origin \in Live \cup {NoVehicle} :
        Call(cls, vin, origin)

Next ==
    \/ Len(vehicles) < MaxVehicles /\ Calls
    \/ Construct
    \/ Return
    \/ Propagate
    \/ \E v \in Live : SetManufacturer(v, "Other")
    \/ \E v \in Usable : WriteIsActive(v, "True")
    \/ \E v \in Usable : AddCapability(v, "CHARGING")
    \/ \E v \in Live : WriteTargetTemperature(v, "21C")
    \/ \E v \in Live : AddCarImage(v, "car_picture")
    \/ \E o \in Observers, v \in Live : Subscribe(o, v)
    \/ \E v \in Live : WriteChargingState(v, "charging")

Spec == Init /\ [][Next]_vars

\* Longer chains of rebuilds, with the manufacturer tag as the only attribute written.
NextChain ==
    \/ Len(vehicles) < MaxChain /\ Calls
    \/ Construct
    \/ Return
    \/ Propagate
    \/ \E v \in Live : SetManufacturer(v, "Other")

SpecChain == Init /\ [][NextChain]_vars

(* ======================= properties ======================= *)

Electric == {"AudiElectricVehicle", "AudiHybridVehicle"}
Migrated == cur.origin # NoVehicle
Built == Usable \cup (IF AtReturn THEN {cur.self} ELSE {})

\* The vin argument of the fresh construction a vehicle's chain of rebuilds started from.
RECURSIVE RootVin(_)
RootVin(v) ==
    IF vehicles[v].origin = NoVehicle THEN vehicles[v].vinArg ELSE RootVin(vehicles[v].origin)

\* The facets a vehicle object holds.
FacetsOf(veh) ==
    {f \in {"climatization", "is_active", "capabilities", "charging"} :
        CASE f = "climatization" -> veh.climatization # NoObj
          [] f = "is_active" -> veh.is_active # NoObj
          [] f = "capabilities" -> veh.capabilities # NoObj
          [] f = "charging" -> veh.charging # NoObj}

DeclaredFacets(cls) ==
    {"climatization", "is_active", "capabilities"}
        \cup (IF cls \in Electric THEN {"charging"} ELSE {})

\* C1: a construction from an origin returns a vehicle with the origin's VIN and the
\* manufacturer "Audi", whatever the origin's manufacturer was; along any chain of
\* rebuilds every vehicle reads the VIN its first, fresh construction was given.
C1_IdentityPreservation ==
    /\ AtReturn => ValOf(heap, Self.manufacturer) = "Audi"
    /\ AtReturn /\ Migrated => ValOf(heap, Self.vin) = ValOf(heap, Origin.vin)
    /\ \A v \in Built : ValOf(heap, vehicles[v].vin) = RootVin(v)

\* a second rebuild in a row returns, from an origin whose manufacturer was overwritten
C1_Witness ==
    /\ AtReturn /\ Migrated
    /\ Origin.origin # NoVehicle
    /\ cur.snap.manufacturer = "Other"
    /\ cur.cls # Origin.cls

\* C2: when a constructor returns, every facet of the result (capabilities, is_active,
\* climatization, and charging where present) has the result as its parent.
C2_ParentConsistency ==
    AtReturn =>
        /\ {Self.capabilities, Self.is_active, Self.climatization} \cap {NoObj} = {}
        /\ \A f \in {Self.capabilities, Self.is_active, Self.climatization, Self.charging}
                      \ {NoObj} :
              heap[f].parent = VehRef(cur.self)

C2_Witness == AtReturn /\ Migrated /\ Self.charging # NoObj /\ Origin.charging # NoObj

C4_CapabilityCompleteness ==
    AtReturn => FacetsOf(Self) = DeclaredFacets(cur.cls)

\* a Combustion vehicle built from an electric-capable origin
C4_Witness ==
    AtReturn /\ Migrated /\ cur.cls = "AudiCombustionVehicle" /\ Origin.cls \in Electric

\* C5: an observer of charging.state has received exactly the writes made to the
\* charging state of the vehicle it subscribed on and of the electric-capable rebuilds
\* of that vehicle, in order; a construction delivers nothing.
C5_ObserverSurvival ==
    \A o \in Observers :
        inbox[o] = [i \in 1..Len(due[o]) |-> due[o][i].value]

\* the observer subscribed on the origin and was notified of a write made on the result
C5_Witness ==
    \E o \in Observers :
        /\ subVia[o] # NoVehicle
        /\ Len(inbox[o]) > 0
        /\ \E i \in 1..Len(due[o]) : vehicles[due[o][i].via].origin = subVia[o]

\* C6: building an Electric or Hybrid vehicle from an origin that is not electric-capable
\* raises nothing; the result's charging facet and its state attribute are objects made
\* by this construction, at their default and without subscribers, and the VIN is the
\* origin's.
C6_CapabilityMismatch ==
    /\ (cur.status = "raised") => ~Migrated
    /\ (AtReturn /\ Migrated /\ cur.cls \in Electric /\ Origin.cls \notin Electric) =>
            /\ Self.charging > cur.heap0
            /\ heap[Self.charging].attr > cur.heap0
            /\ heap[Self.charging].kind = "AudiCharging"
            /\ AttrVal(heap, Self.charging) = None
            /\ heap[heap[Self.charging].attr].subs = {}
            /\ Origin.charging = NoObj
            /\ ValOf(heap, Self.vin) = RootVin(cur.origin)

C6_Witness ==
    AtReturn /\ Migrated /\ cur.cls = "AudiHybridVehicle"
             /\ Origin.cls = "AudiCombustionVehicle"

\* C7: when a constructor returns from a migration, capabilities, is_active, the
\* climatization target and (electric-capable origin and target) the charging state read
\* what the origin read when the constructor was called.
C7_StateCarryOver ==
    (AtReturn /\ Migrated) =>
        /\ ItemsOf(heap, Self.capabilities) = cur.snap.capabilities
        /\ ValOf(heap, Self.is_active) = cur.snap.is_active
        /\ AttrVal(heap, Self.climatization) = cur.snap.climatization
        /\ (cur.cls \in Electric /\ Origin.cls \in Electric) =>
                AttrVal(heap, Self.charging) = cur.snap.charging

\* a migration returns whose origin held a value that is not the default
C7_Witness ==
    /\ AtReturn /\ Migrated
    /\ \/ cur.snap.is_active = "True"
       \/ cur.snap.climatization = "21C"
       \/ cur.snap.capabilities # {}
       \/ cur.snap.charging = "charging"

FreshElectricReturns ==
    AtReturn /\ ~Migrated /\ cur.cls = "AudiElectricVehicle"

FreshElectricDefaults ==
    /\ ValOf(heap, Self.vin) = cur.vin
    /\ cur.vin \in Vins
    /\ AttrVal(heap, Self.charging) = None
    /\ heap[heap[Self.charging].attr].subs = {}
    /\ AttrVal(heap, Self.climatization) = None
    /\ ItemsOf(heap, Self.capabilities) = {}
    /\ Self.capabilities > cur.heap0
    /\ ValOf(heap, Self.manufacturer) = "Audi"

\* C8 as stated: a fresh Electric vehicle has its vin, default charging and
\* climatization, an empty new capability set, manufacturer "Audi" and is_active false.
C8_FreshDefaultsFalse ==
    FreshElectricReturns => (FreshElectricDefaults /\ ValOf(heap, Self.is_active) = "False")

\* C8 amended: as stated, but is_active holds no value (None): the attribute is built
\* without a value, it is not false.
C8_FreshDefaultsUnset ==
    FreshElectricReturns => (FreshElectricDefaults /\ ValOf(heap, Self.is_active) = None)

C8_Witness == FreshElectricReturns /\ Self.is_active # NoObj

IsCoreStep(l) == l \in {"GV_fresh", "GV_migrate"}
IsChargingStep(l) == l \in {"EV_adopt", "EV_new", "AEV_86", "AEV_93"}
CoreFirst == Len(Executed) > 0 => IsCoreStep(Executed[1])

\* C9 as stated: the core is built first and nothing is executed after the
\* manufacturer stamp.
C9_StampLast ==
    /\ CoreFirst
    /\ \A i \in 1..Len(Executed) : Executed[i] = "AV_63" => i = Len(Executed)

\* C9 amended: the core is built first, every construction stamps the manufacturer, and
\* the stamp is the last step of AudiVehicle's own initialiser: the only steps after it
\* are the charging steps of the Electric and Hybrid variants (two per construction).
C9_StampLastButCharging ==
    /\ CoreFirst
    /\ AtReturn => Did("AV_63")
    /\ \A i, j \in 1..Len(Executed) :
          (Executed[i] = "AV_63" /\ i < j) =>
              (IsChargingStep(Executed[j]) /\ cur.cls \in Electric)
    /\ (AtReturn /\ cur.cls \in Electric) =>
          /\ Executed[Len(Executed) - 2] = "AV_63"
          /\ IsChargingStep(Executed[Len(Executed)])
    /\ (AtReturn /\ cur.cls \notin Electric) => Executed[Len(Executed)] = "AV_63"

C9_Witness == AtReturn /\ Migrated /\ cur.cls = "AudiHybridVehicle"

\* C10: after a migration origin and result hold the same capabilities and is_active
\* objects (and the same image cache with image support), owned by the result and no
\* longer by the origin; a write through the retired origin is read on the result; at
\* every step of the migration each of the two has the origin, then the result, as parent.
C10_OriginAliasing ==
    /\ (AtReturn /\ Migrated) =>
          /\ heap[Self.capabilities].parent = VehRef(cur.self)
          /\ heap[Self.is_active].parent = VehRef(cur.self)
    /\ \A v \in Built :
          LET u == vehicles[v].origin IN
            u # NoVehicle =>
              /\ vehicles[v].capabilities = vehicles[u].capabilities
              /\ vehicles[v].is_active = vehicles[u].is_active
              /\ vehicles[u].capabilities # NoObj
              /\ vehicles[u].is_active # NoObj
              /\ heap[vehicles[u].capabilities].parent # VehRef(u)
              /\ heap[vehicles[u].is_active].parent # VehRef(u)
              /\ SUPPORT_IMAGES =>
                    /\ vehicles[v].car_images = vehicles[u].car_images
                    /\ vehicles[u].car_images # NoObj
              /\ staleVia = u =>
                    /\ ValOf(heap, vehicles[v].is_active) = ValOf(heap, vehicles[u].is_active)
                    /\ ItemsOf(heap, vehicles[v].capabilities)
                          = ItemsOf(heap, vehicles[u].capabilities)
    /\ (Running /\ Migrated) =>
          /\ heap[Origin.capabilities].parent =
                IF Did("AV_51") THEN VehRef(cur.self) ELSE VehRef(cur.origin)
          /\ heap[Origin.is_active].parent =
                IF Did("AV_53") THEN VehRef(cur.self) ELSE VehRef(cur.origin)

\* is_active was written through the retired origin and reads "True" on the result
C10_Witness ==
    \E v \in Usable :
        /\ vehicles[v].origin # NoVehicle
        /\ staleVia = vehicles[v].origin
        /\ ValOf(heap, vehicles[v].is_active) = "True"
        /\ SUPPORT_IMAGES

====
